---- MODULE Spec2Model ----
(***************************************************************************)
(* A model of tsforest's LightGBMForecaster (fit, predict and the          *)
(* iterative _predict loop) and of TrendEstimator (fit, predict).          *)
(*                                                                         *)
(* The boosted-tree model, Prophet and pandas/numpy are external: a call   *)
(* of model.predict returns an arbitrary value of RawVals, recorded in the *)
(* call log raw; numbers are integers (all the arithmetic of the code that *)
(* is modelled is +, * and comparisons, exact on the values used).         *)
(* Python's None is the string "None"; rows are numbered from 1 here and   *)
(* from 0 in the code: when idx = k the loop has done rows 1..k.           *)
(***************************************************************************)
EXTENDS Integers, Sequences, FiniteSets, TLC

\* ------------------------------------------------------------- bounds
MaxTrain == 2    \* rows of the training targets: 1..MaxTrain
MaxPred == 2     \* rows of predict_data: 1..MaxPred
MaxData == 2     \* rows of the data a TrendEstimator is fitted on
MaxPeriod == 2   \* rows of the period a TrendEstimator predicts
MaxUserVal == 2  \* values a user's model_params may give a key: 1..MaxUserVal

RawVals == {1, 2}          \* what model.predict may return for a row
YVals == {3, 5}            \* training targets
ValidY == <<7>>            \* validation targets when a valid_period is given
None == "None"

VARIABLES
    \* LightGBMForecaster: the object's fields
    response_scaling, detrend, features, y_mean, y_std, valid_period,
    train_features, valid_features, model_params, lgbm_parameters,
    model, best_iteration, training_params,
    \* LightGBMForecaster.predict / _predict: locals of the running call
    pc, predict_data, predict_features, trend_dataframe, y, prediction,
    raw, idx, prediction_dataframe,
    \* TrendEstimator
    backend, trend_estimator, trend_out

forecaster_vars == <<response_scaling, detrend, features, y_mean, y_std,
                     valid_period, train_features, valid_features>>
fit_vars == <<model_params, lgbm_parameters, model, best_iteration,
              training_params>>
call_vars == <<pc, predict_data, predict_features, trend_dataframe, y,
               prediction, raw, idx, prediction_dataframe>>
trend_vars == <<backend, trend_estimator, trend_out>>
vars == <<forecaster_vars, fit_vars, call_vars, trend_vars>>

\* ------------------------------------------------------------ helpers
\* The sequences over S of length lo..hi.
SeqsOf(S, lo, hi) == UNION {[1..n -> S] : n \in lo..hi}

\* A dict d with d[k] = v (a pandas .loc[row, col] = v on one row, or d[k] = v).
Put(d, k, v) == [c \in DOMAIN d \cup {k} |-> IF c = k THEN v ELSE d[c]]

\* A dict d without key k (del d[k]).
Del(d, k) == [c \in DOMAIN d \ {k} |-> d[c]]

\* ------------------------------------------------------ TrendEstimator
\* Prophet's fit, an external library: a linear trend through the data.
train_model(data) ==
    [kind |-> "prophet", m |-> data[1], k |-> data[Len(data)] - data[1]]

\* A TrendEstimator before fit: the attribute trend_estimator is not set.
Unfitted == [kind |-> None, m |-> 0, k |-> 0]

\* Prophet's predict_trend over the dates of future_dataframe.
compute_prophet_trend(prophet_model, future_dataframe) ==
    [i \in 1..Len(future_dataframe) |->
        prophet_model.m + prophet_model.k * future_dataframe[i]]

\* TrendEstimator.predict: the dataframe returned (raised = None), or the
\* exception raised. trend_dataframe is assigned under backend == "prophet"
\* only; the attribute trend_estimator exists only after fit.
TrendEstimator_predict(bk, est, predict_period) ==
    IF bk = "prophet"
    THEN IF est.kind = None
         THEN [raised |-> "AttributeError", frame |-> <<>>]
         ELSE LET trend == compute_prophet_trend(est, predict_period)
              IN [raised |-> None,
                  frame |-> [i \in 1..Len(predict_period) |->
                               [ds |-> predict_period[i], trend |-> trend[i]]]]
    ELSE [raised |-> "UnboundLocalError", frame |-> <<>>]

\* No call of TrendEstimator.predict yet.
NoCall == [period |-> <<>>, raised |-> None, frame |-> <<>>]

\* ------------------------------------------------- the _predict loop
lags == <<1, 2>>
window_functions == <<"sum", "max">>
window_sizes == <<1, 3>>

RECURSIVE NpSum(_)
NpSum(s) == IF s = <<>> THEN 0 ELSE s[1] + NpSum(Tail(s))

RECURSIVE NpMax(_)
NpMax(s) == IF Len(s) = 1 THEN s[1]
            ELSE LET m == NpMax(Tail(s)) IN IF s[1] > m THEN s[1] ELSE m

\* getattr(np, window_func)(values)
ApplyNp(window_func, values) ==
    IF window_func = "sum" THEN NpSum(values) ELSE NpMax(values)

\* Python's a[-n] on an array of length >= n (a[-0] is a[0]).
NegIndexFront(a, n) == IF n = 0 THEN a[1] ELSE a[n]
NegIndex(a, n) == IF n = 0 THEN a[1] ELSE a[Len(a) - n + 1]

\* Python's a[-n:] (a[-0:] is the whole array, as is a[-n:] for n > len).
NegSliceWide(a, n) ==
    IF n = 0 \/ n + 1 >= Len(a) THEN a ELSE SubSeq(a, Len(a) - n, Len(a))
NegSlice(a, n) ==
    IF n = 0 \/ n >= Len(a) THEN a ELSE SubSeq(a, Len(a) - n + 1, Len(a))

\* a[-n] raises IndexError
IndexRaises(a, n) == n > Len(a) \/ (n = 0 /\ Len(a) = 0)

lag_col(lag) == "lag_" \o ToString(lag)
rw_col(window_func, window) == window_func \o "_" \o ToString(window)

\* for lag in self.lags: row[f"lag_{lag}"] = y[-lag], from the k-th lag on,
\* stopping at the first lag that raises.
RECURSIVE WriteLags(_, _, _)
WriteLags(row, hist, k) ==
    IF k > Len(lags) \/ IndexRaises(hist, lags[k]) THEN row
    ELSE WriteLags(Put(row, lag_col(lags[k]), NegIndex(hist, lags[k])),
                   hist, k + 1)

\* for window in self.window_sizes: row[f"{window_func}_{window}"] = ...
RECURSIVE WriteSizes(_, _, _, _)
WriteSizes(row, hist, window_func, k) ==
    IF k > Len(window_sizes) THEN row
    ELSE WriteSizes(Put(row, rw_col(window_func, window_sizes[k]),
                        ApplyNp(window_func, NegSlice(hist, window_sizes[k]))),
                    hist, window_func, k + 1)

\* for window_func in self.window_functions: ...
RECURSIVE WriteWindows(_, _, _)
WriteWindows(row, hist, j) ==
    IF j > Len(window_functions) THEN row
    ELSE WriteWindows(WriteSizes(row, hist, window_functions[j], 1),
                      hist, j + 1)

\* The row as the model sees it at one step of the loop.
StepRow(row, hist) ==
    LET r1 == IF "lag" \in features THEN WriteLags(row, hist, 1) ELSE row
    IN IF "rw" \in features THEN WriteWindows(r1, hist, 1) ELSE r1

StepRaises(hist) ==
    "lag" \in features /\ \E k \in 1..Len(lags) : IndexRaises(hist, lags[k])

\* if self.response_scaling: v *= self.y_std; v += self.y_mean
Rescale(v) == IF response_scaling THEN v * y_std + y_mean ELSE v

\* if self.detrend: v += trend
Retrend(v, trend) == IF detrend THEN v + trend ELSE v

\* What prediction.append(y_pred.copy()) stores, given the model's output r
\* and the value y_pred holds after the in-place updates that follow.
RecordedAlias(r, updated) == updated
Recorded(r, updated) == r

\* np.append(y, [y_pred])
NpAppendRoll(hist, v) == Append(Tail(hist), v)
NpAppend(hist, v) == Append(hist, v)

\* np.concatenate([y_train, y_valid]) of lines 70-73
History ==
    train_features \o (IF valid_period # None THEN valid_features ELSE <<>>)

\* range(predict_features.shape[0]) is exhausted
LoopDoneEarly(i, n) == i >= n - 1
LoopDone(i, n) == i >= n

Iterative == "lag" \in features \/ "rw" \in features

\* prediction[zero_response_mask] = 0
MaskNone(p, frame) == p
Mask(p, frame) ==
    [i \in 1..Len(p) |->
        IF "zero_response" \in DOMAIN frame[i] /\ frame[i]["zero_response"] = 1
        THEN 0 ELSE p[i]]

\* ---------------------------------------------------------------- Init
InitFit ==
    /\ model_params = <<>>
    /\ lgbm_parameters = <<>>
    /\ model = "Booster"
    /\ best_iteration = 5
    /\ training_params = [args |-> <<>>, params |-> <<>>]

InitCall ==
    /\ pc = "idle"
    /\ predict_data = <<>>
    /\ predict_features = <<>>
    /\ trend_dataframe = <<>>
    /\ y = <<>>
    /\ prediction = <<>>
    /\ raw = <<>>
    /\ idx = 0
    /\ prediction_dataframe = <<>>

\* A fitted forecaster; its trend estimator is TrendEstimator() fitted.
Init ==
    /\ response_scaling \in BOOLEAN
    /\ detrend \in BOOLEAN
    /\ features \in SUBSET {"lag", "rw"}
    /\ y_mean = 1
    /\ y_std = 2
    /\ valid_period \in {None, "valid"}
    /\ train_features \in SeqsOf(YVals, 1, MaxTrain)
    /\ valid_features = IF valid_period = None THEN None ELSE ValidY
    /\ InitFit
    /\ InitCall
    /\ backend = "prophet"
    /\ trend_estimator = train_model(<<1, 2>>)
    /\ trend_out = NoCall

\* ------------------------------------------------------------- predict
\* The rows of predict_data: a date and, when the column exists, the
\* zero_response flag.
PredictInputs ==
    UNION {[1..n -> [ds : {0}, zero_response : {0, 1}]] \cup
           [1..n -> [ds : {0}]] : n \in 1..MaxPred}

Dated(rows) ==
    [i \in 1..Len(rows) |-> [rows[i] EXCEPT !.ds = 2 * i + 1]]

\* predict, lines 108-112: the trend estimator's answer over the period.
TrendOver(data) ==
    TrendEstimator_predict(backend, trend_estimator,
                           [i \in 1..Len(data) |-> data[i].ds])

TrendRaises(data) == detrend /\ TrendOver(data).raised # None

\* predict, lines 106-112: the features and the trend over the period.
PredictEnter(data) ==
    /\ predict_data' = data
    /\ predict_features' = data
    /\ trend_dataframe' = IF detrend THEN TrendOver(data).frame ELSE <<>>

\* predict, lines 106-115, then _predict, lines 70-75.
PredictIterative ==
    /\ pc = "idle" /\ Iterative
    /\ \E rows \in PredictInputs :
         /\ PredictEnter(Dated(rows))
         /\ pc' = IF TrendRaises(Dated(rows)) THEN "raised" ELSE "loop"
    /\ y' = History
    /\ prediction' = <<>>
    /\ idx' = 0
    /\ UNCHANGED <<raw, prediction_dataframe>>
    /\ UNCHANGED <<forecaster_vars, fit_vars, trend_vars>>

\* predict, lines 106-117: one call of the model on all the rows.
PredictDirect ==
    /\ pc = "idle" /\ ~Iterative
    /\ \E rows \in PredictInputs :
         /\ PredictEnter(Dated(rows))
         /\ pc' = IF TrendRaises(Dated(rows)) THEN "raised" ELSE "post"
         /\ \E out \in [1..Len(rows) -> RawVals] :
              /\ raw' = out
              /\ prediction' = out
    /\ UNCHANGED <<y, idx, prediction_dataframe>>
    /\ UNCHANGED <<forecaster_vars, fit_vars, trend_vars>>

\* _predict, lines 76-91: one iteration of the loop.
IterStep ==
    /\ pc = "loop"
    /\ ~LoopDone(idx, Len(predict_features))
    /\ ~StepRaises(y)
    /\ \E r \in RawVals :
         LET trend == IF detrend THEN trend_dataframe[idx + 1].trend ELSE 0
             updated == Retrend(Rescale(r), trend)
         IN /\ predict_features' =
                  [predict_features EXCEPT
                      ![idx + 1] = StepRow(predict_features[idx + 1], y)]
            /\ raw' = Append(raw, r)
            /\ prediction' = Append(prediction, Recorded(r, updated))
            /\ y' = NpAppend(y, updated)
    /\ idx' = idx + 1
    /\ UNCHANGED <<pc, predict_data, trend_dataframe, prediction_dataframe>>
    /\ UNCHANGED <<forecaster_vars, fit_vars, trend_vars>>

\* _predict, lines 77-79: y[-lag] raises IndexError, after the lags before
\* it were written.
IterRaise ==
    /\ pc = "loop"
    /\ ~LoopDone(idx, Len(predict_features))
    /\ StepRaises(y)
    /\ predict_features' =
          [predict_features EXCEPT
              ![idx + 1] = WriteLags(predict_features[idx + 1], y, 1)]
    /\ pc' = "raised"
    /\ UNCHANGED <<predict_data, trend_dataframe, y, prediction, raw, idx,
                   prediction_dataframe>>
    /\ UNCHANGED <<forecaster_vars, fit_vars, trend_vars>>

\* _predict, line 92, back in predict at line 115.
IterReturn ==
    /\ pc = "loop"
    /\ LoopDone(idx, Len(predict_features))
    /\ pc' = "post"
    /\ UNCHANGED <<predict_data, predict_features, trend_dataframe, y,
                   prediction, raw, idx, prediction_dataframe>>
    /\ UNCHANGED <<forecaster_vars, fit_vars, trend_vars>>

\* predict, lines 119-123: inverse scaling and the trend, on the whole array.
PostProcess ==
    /\ pc = "post"
    /\ IF detrend /\ Len(prediction) # Len(trend_dataframe)
       THEN /\ pc' = "raised"
            /\ UNCHANGED prediction
       ELSE /\ pc' = "mask"
            /\ prediction' =
                 [i \in 1..Len(prediction) |->
                    Retrend(Rescale(prediction[i]),
                            IF detrend THEN trend_dataframe[i].trend ELSE 0)]
    /\ UNCHANGED <<predict_data, predict_features, trend_dataframe, y, raw,
                   idx, prediction_dataframe>>
    /\ UNCHANGED <<forecaster_vars, fit_vars, trend_vars>>

\* predict, lines 124-126: the zero_response mask.
ZeroMask ==
    /\ pc = "mask"
    /\ IF Len(prediction) # Len(predict_features)
       THEN /\ pc' = "raised"
            /\ UNCHANGED prediction
       ELSE /\ pc' = "return"
            /\ prediction' = Mask(prediction, predict_features)
    /\ UNCHANGED <<predict_data, predict_features, trend_dataframe, y, raw,
                   idx, prediction_dataframe>>
    /\ UNCHANGED <<forecaster_vars, fit_vars, trend_vars>>

\* predict, lines 128-131: the dataframe returned.
PredictReturn ==
    /\ pc = "return"
    /\ prediction_dataframe' =
          [i \in 1..Len(predict_data) |->
              [ds |-> predict_data[i].ds, y_pred |-> prediction[i]]]
    /\ pc' = "done"
    /\ UNCHANGED <<predict_data, predict_features, trend_dataframe, y,
                   prediction, raw, idx>>
    /\ UNCHANGED <<forecaster_vars, fit_vars, trend_vars>>

Next ==
    \/ PredictIterative
    \/ PredictDirect
    \/ IterStep
    \/ IterRaise
    \/ IterReturn
    \/ PostProcess
    \/ ZeroMask
    \/ PredictReturn

Spec == Init /\ [][Next]_vars

\* ----------------------------------------------------------------- fit
\* {**a, **b}
MergeReversed(a, b) ==
    [c \in DOMAIN a \cup DOMAIN b |-> IF c \in DOMAIN a THEN a[c] ELSE b[c]]
Merge(a, b) ==
    [c \in DOMAIN a \cup DOMAIN b |-> IF c \in DOMAIN b THEN b[c] ELSE a[c]]

\* valid_period is None and "early_stopping_rounds" in model_params
DropsUserKeyOnly(vp, merged) ==
    vp = None /\ "early_stopping_rounds" \in DOMAIN model_params
DropsEarlyStopping(vp, merged) ==
    vp = None /\ "early_stopping_rounds" \in DOMAIN merged

\* The keyword arguments fit passes to lgb.train.
TrainingParams(vp) ==
    LET merged == Merge(lgbm_parameters, model_params)
        passed == IF DropsEarlyStopping(vp, merged)
                  THEN Del(merged, "early_stopping_rounds") ELSE merged
        tp0 == [c \in {"train_set"} |-> "train_features_casted"]
        tp1 == IF vp # None
               THEN [c \in {"train_set", "valid_sets", "verbose_eval"} |->
                       CASE c = "train_set" -> "train_features_casted"
                         [] c = "valid_sets" -> "valid_features_casted"
                         [] OTHER -> "False"]
               ELSE tp0
    IN [args |-> tp1, params |-> passed]

\* What lgb.train may return: the booster's best_iteration and num_trees().
TrainResults ==
    {[best_iteration |-> 0, num_trees |-> 5],
     [best_iteration |-> 3, num_trees |-> 5]}

\* The default parameters of tsforest.config, with or without early stopping.
DefaultParams ==
    {[c \in {"learning_rate", "num_leaves", "early_stopping_rounds"} |-> 0],
     [c \in {"learning_rate", "num_leaves"} |-> 0]}

\* The model_params a user may construct the forecaster with.
UserKeys == {"num_leaves", "early_stopping_rounds", "seed"}
UserParams == UNION {[K -> 1..MaxUserVal] : K \in SUBSET UserKeys}

\* A forecaster as constructed, before fit.
InitFitSpec ==
    /\ response_scaling = FALSE
    /\ detrend = FALSE
    /\ features = {}
    /\ y_mean = 0
    /\ y_std = 1
    /\ valid_period = None
    /\ train_features = <<3, 5>>
    /\ valid_features = None
    /\ model_params \in UserParams
    /\ lgbm_parameters \in DefaultParams
    /\ model = None
    /\ best_iteration = 0
    /\ training_params = [args |-> <<>>, params |-> <<>>]
    /\ InitCall
    /\ backend = "prophet"
    /\ trend_estimator = Unfitted
    /\ trend_out = NoCall

\* fit(train_data, valid_period), lines 40-57; _prepare_features (line 41)
\* keeps the validation period and its features on the object.
Fit ==
    /\ \E vp \in {None, "valid"} : \E trained \in TrainResults :
         /\ valid_period' = vp
         /\ valid_features' = IF vp = None THEN None ELSE ValidY
         /\ training_params' = TrainingParams(vp)
         /\ model' = "Booster"
         /\ best_iteration' = IF trained.best_iteration > 0
                              THEN trained.best_iteration
                              ELSE trained.num_trees
    /\ UNCHANGED <<model_params, lgbm_parameters>>
    /\ UNCHANGED <<response_scaling, detrend, features, y_mean, y_std,
                   train_features>>
    /\ UNCHANGED <<call_vars, trend_vars>>

NextFit == Fit

SpecFit == InitFitSpec /\ [][NextFit]_vars

\* ------------------------------------------------------ TrendEstimator
Dates == {1, 2}

\* TrendEstimator(backend), lines 105-106.
InitTrend ==
    /\ response_scaling = FALSE
    /\ detrend = FALSE
    /\ features = {}
    /\ y_mean = 0
    /\ y_std = 1
    /\ valid_period = None
    /\ train_features = <<3, 5>>
    /\ valid_features = None
    /\ InitFit
    /\ InitCall
    /\ backend \in {"prophet", "stl"}
    /\ trend_estimator = Unfitted
    /\ trend_out = NoCall

\* TrendEstimator.fit(data), lines 108-116: train_model whatever the backend.
TrendFit ==
    /\ \E data \in SeqsOf(YVals, 1, MaxData) :
         trend_estimator' = train_model(data)
    /\ UNCHANGED <<backend, trend_out>>
    /\ UNCHANGED <<forecaster_vars, fit_vars, call_vars>>

\* TrendEstimator.predict(predict_period), lines 118-129.
TrendPredict ==
    /\ \E period \in SeqsOf(Dates, 1, MaxPeriod) :
         LET out == TrendEstimator_predict(backend, trend_estimator, period)
         IN trend_out' = [period |-> period, raised |-> out.raised,
                          frame |-> out.frame]
    /\ UNCHANGED <<backend, trend_estimator>>
    /\ UNCHANGED <<forecaster_vars, fit_vars, call_vars>>

NextTrend == TrendFit \/ TrendPredict

SpecTrend == InitTrend /\ [][NextTrend]_vars

\* ------------------------------------------------- claims on predict
\* The targets the history starts from, and their number.
Targets ==
    IF valid_period = None THEN train_features
    ELSE train_features \o valid_features
n_history_initial == Len(Targets)

ZeroFlagged(frame, i) ==
    "zero_response" \in DOMAIN frame[i] /\ frame[i]["zero_response"] = 1

Returned == pc = "done"
InLoopOrAfter == pc \in {"loop", "post", "mask", "return", "done"}

\* The model's output for row i, scaled back and with the row's trend.
Composed(i) ==
    (IF response_scaling THEN raw[i] * y_std + y_mean ELSE raw[i])
    + (IF detrend THEN trend_dataframe[i].trend ELSE 0)

\* C1: when predict has returned, every row i not flagged zero_response has
\* y_pred[i] = raw output of row i, times y_std plus y_mean when
\* response_scaling is on, plus the trend estimated for row i's date when
\* detrend is on, each applied once; on the iterative and the direct path.
C1_TrendReadded ==
    Returned =>
        /\ Len(raw) = Len(predict_data)
        /\ \A i \in 1..Len(predict_data) :
             /\ detrend => trend_dataframe[i].ds = predict_data[i].ds
             /\ ~ZeroFlagged(predict_data, i) =>
                   prediction_dataframe[i].y_pred = Composed(i)

C1_Witness ==
    /\ Returned /\ Iterative /\ detrend /\ response_scaling
    /\ Len(predict_data) >= 2
    /\ \A i \in 1..Len(predict_data) : ~ZeroFlagged(predict_data, i)

\* C2: in the iterative loop, for every row done (step i, 0-based) and
\* every configured lag L with 1 <= L <= length of the history before the
\* step, lag_L of the row is the history element L from the end: the value
\* appended at step i-L when L <= i, else the training/validation target at
\* position n_history_initial + i - L.
C2_LagFeature ==
    (InLoopOrAfter /\ "lag" \in features) =>
        \A j \in 1..idx : \A k \in 1..Len(lags) :
            LET L == lags[k]
                i == j - 1
            IN (1 <= L /\ L <= n_history_initial + i) =>
                 /\ lag_col(L) \in DOMAIN predict_features[j]
                 /\ predict_features[j][lag_col(L)] =
                       IF L <= i THEN y[n_history_initial + (i - L) + 1]
                       ELSE Targets[n_history_initial + i - L + 1]

C2_Witness ==
    /\ Returned /\ "lag" \in features /\ idx = 2
    /\ n_history_initial = 2 /\ Targets[1] # Targets[2]
    /\ predict_features[1]["lag_2"] = Targets[1]
    /\ predict_features[2]["lag_1"] = y[3]

\* C3: the history buffer starts as the training targets followed by the
\* validation targets (none without valid_period); each step of the loop
\* appends one element and keeps the elements before it, so after k steps
\* its length is n_train + n_valid + k; predict never changes the stored
\* train_features / valid_features targets.
C3_HistoryGrows ==
    /\ []((InLoopOrAfter /\ Iterative) =>
            /\ Len(y) = n_history_initial + idx
            /\ SubSeq(y, 1, n_history_initial) = Targets
            /\ valid_period = None => Len(y) = Len(train_features) + idx)
    /\ [][/\ (pc = "loop" /\ idx' # idx) =>
                /\ idx' = idx + 1
                /\ Len(y') = Len(y) + 1
                /\ SubSeq(y', 1, Len(y)) = y
          /\ train_features' = train_features
          /\ valid_features' = valid_features]_vars

C3_Witness ==
    /\ pc = "loop" /\ idx = 2 /\ valid_period # None
    /\ Len(y) = Len(train_features) + Len(valid_features) + 2

\* C6: predict returns one prediction per row of predict_data, in its
\* order: on both paths the number of predictions is the number of rows of
\* the prediction features, and row i of the dataframe returned holds date
\* i and prediction i.
C6_OnePredictionPerRow ==
    /\ pc \in {"post", "mask", "return", "done"} =>
          /\ Len(prediction) = Len(predict_features)
          /\ Len(predict_features) = Len(predict_data)
    /\ Returned =>
          /\ Len(prediction_dataframe) = Len(predict_data)
          /\ \A i \in 1..Len(predict_data) :
                /\ prediction_dataframe[i].ds = predict_data[i].ds
                /\ prediction_dataframe[i].y_pred = prediction[i]

C6_Witness ==
    /\ Returned /\ Iterative /\ Len(predict_data) = 2
    /\ Len(prediction_dataframe) = 2

\* C7: the value appended to the history at step i is the prediction
\* returned for row i (y_pred[i]), for every row and every combination of
\* response_scaling, detrend and zero_response.
C7_HistoryIsReported ==
    (Returned /\ Iterative) =>
        \A i \in 1..Len(predict_data) :
            y[n_history_initial + i] = prediction_dataframe[i].y_pred

\* The w most recent elements of s, all of s when it has fewer.
MostRecent(s, w) ==
    IF Len(s) <= w THEN s ELSE [n \in 1..w |-> s[Len(s) - w + n]]

RECURSIVE SumOf(_)
SumOf(s) == IF Len(s) = 0 THEN 0 ELSE s[Len(s)] + SumOf(SubSeq(s, 1, Len(s) - 1))

MaxOf(s) ==
    CHOOSE m \in {s[n] : n \in 1..Len(s)} : \A n \in 1..Len(s) : s[n] <= m

Window(f, s) == IF f = "sum" THEN SumOf(s) ELSE MaxOf(s)

\* C8: in the iterative loop, for every row done (step i), window function
\* f and window size w >= 1, f_w of the row is f over the w most recent
\* elements of the history as it stood before step i's value was appended
\* (over all of it when it is shorter than w): it holds the values appended
\* at steps i-w .. i-1 and not row i's own prediction.
C8_WindowFeature ==
    (InLoopOrAfter /\ "rw" \in features) =>
        \A j \in 1..idx :
          \A a \in 1..Len(window_functions) : \A b \in 1..Len(window_sizes) :
            LET f == window_functions[a]
                w == window_sizes[b]
                before == SubSeq(y, 1, n_history_initial + j - 1)
            IN w >= 1 =>
                 /\ rw_col(f, w) \in DOMAIN predict_features[j]
                 /\ predict_features[j][rw_col(f, w)] =
                       Window(f, MostRecent(before, w))

C8_Witness ==
    /\ Returned /\ "rw" \in features /\ idx = 2
    /\ n_history_initial = 3
    /\ predict_features[1]["sum_3"] = y[1] + y[2] + y[3]
    /\ predict_features[2]["sum_3"] = y[2] + y[3] + y[4]
    /\ predict_features[2]["max_1"] = y[4]

\* C9: every row of the prediction features whose zero_response is 1 is
\* returned with y_pred = 0, whatever the model output, response_scaling
\* and detrend are; the masking step, which comes after the inverse scaling
\* and the trend, leaves the other rows as they were.
C9_ZeroMask ==
    /\ [](Returned =>
            \A i \in 1..Len(predict_features) :
               ZeroFlagged(predict_features, i) =>
                  prediction_dataframe[i].y_pred = 0)
    /\ [][(pc = "mask" /\ pc' = "return") =>
            /\ Len(prediction') = Len(prediction)
            /\ \A i \in 1..Len(predict_features) :
                  /\ ZeroFlagged(predict_features, i) => prediction'[i] = 0
                  /\ ~ZeroFlagged(predict_features, i) =>
                        /\ prediction'[i] = prediction[i]
                        /\ prediction[i] = Composed(i)]_vars

C9_Witness ==
    /\ Returned /\ detrend /\ response_scaling /\ Len(predict_features) = 2
    /\ ZeroFlagged(predict_features, 1) /\ ~ZeroFlagged(predict_features, 2)
    /\ prediction_dataframe[1].y_pred = 0
    /\ prediction_dataframe[2].y_pred > 0

\* ----------------------------------------------------- claims on fit
Fitted == model # None
Passed == training_params.params
ESR == "early_stopping_rounds"

\* C5: the parameters passed to training hold every key of lgbm_parameters
\* and of self.model_params, a key of self.model_params with the user's
\* value and any other default key with the default value; the exception is
\* early_stopping_rounds, which is dropped when no valid_period is given.
C5_UserOverwritesDefaults ==
    Fitted =>
        LET kept == (DOMAIN lgbm_parameters \cup DOMAIN model_params)
                      \ (IF valid_period = None THEN {ESR} ELSE {})
        IN /\ DOMAIN Passed = kept
           /\ \A c \in kept :
                Passed[c] = IF c \in DOMAIN model_params
                            THEN model_params[c] ELSE lgbm_parameters[c]

C5_Witness ==
    /\ Fitted /\ valid_period # None
    /\ {"num_leaves", ESR} \subseteq DOMAIN model_params
    /\ ESR \in DOMAIN lgbm_parameters
    /\ Passed["num_leaves"] = 2 /\ Passed[ESR] = 1
    /\ Passed["learning_rate"] = 0

\* C10: without a valid_period the training call gets no valid_sets and its
\* params have no early_stopping_rounds, whether the key came from the
\* defaults or from the user; with a valid_period it gets valid_sets and
\* early_stopping_rounds stays as merged; self.model_params is never changed.
C10_EarlyStoppingOnlyWithValidation ==
    /\ [](Fitted =>
            /\ valid_period = None =>
                 /\ "valid_sets" \notin DOMAIN training_params.args
                 /\ ESR \notin DOMAIN Passed
            /\ valid_period # None =>
                 /\ "valid_sets" \in DOMAIN training_params.args
                 /\ ESR \in DOMAIN model_params =>
                       (ESR \in DOMAIN Passed /\ Passed[ESR] = model_params[ESR])
                 /\ (ESR \notin DOMAIN model_params
                       /\ ESR \in DOMAIN lgbm_parameters) =>
                       (ESR \in DOMAIN Passed /\ Passed[ESR] = lgbm_parameters[ESR])
                 /\ ESR \in DOMAIN Passed =>
                       ESR \in DOMAIN model_params \cup DOMAIN lgbm_parameters)
    /\ [][model_params' = model_params]_vars

C10_Witness ==
    /\ Fitted /\ valid_period = None
    /\ ESR \in DOMAIN model_params
    /\ ESR \in DOMAIN lgbm_parameters
    /\ ESR \notin DOMAIN Passed
    /\ "valid_sets" \notin DOMAIN training_params.args
    /\ "num_leaves" \in DOMAIN Passed

\* ------------------------------------------- claims on TrendEstimator
\* C4: with backend 'prophet' or 'stl', a predict(predict_period) made
\* after fit(data) returns one row per row of predict_period, with that
\* row's ds and a trend; with backend 'stl' the fitted estimator is a
\* seasonal-trend decomposition, not the Bayesian curve-fitting model.
C4_BothBackends ==
    [][(trend_estimator.kind # None /\ trend_out' # trend_out) =>
            /\ trend_out'.raised = None
            /\ Len(trend_out'.frame) = Len(trend_out'.period)
            /\ \A i \in 1..Len(trend_out'.period) :
                  trend_out'.frame[i].ds = trend_out'.period[i]
            /\ backend = "stl" => trend_estimator.kind = "stl"]_vars

====
